---- MODULE Spec2Model ----
(***************************************************************************)
(* A model of the RETRO transformer layers (labml_nn/transformers/retro/   *)
(* model.py) and of the StyleGAN training loop (labml_nn/gan/stylegan/     *)
(* __init__.py).                                                           *)
(*                                                                         *)
(* Tensors are modelled along the dimensions the code indexes: the batch   *)
(* and feature dimensions are dropped, and the embedding at one sequence   *)
(* position is a record that says where its content comes from:           *)
(*   tok   the input position whose embedding it is computed from          *)
(*         (None for an all-zero embedding),                               *)
(*   norm  whether a LayerNorm has been applied,                           *)
(*   kv    the set of key/value entries it has attended to,                *)
(*   res   the input position added as the residual (None: no residual).   *)
(* Sequence positions are 0-based as in the source; TLA+ sequences are     *)
(* 1-based, so position p is element p + 1.                                *)
(***************************************************************************)
EXTENDS Integers, Sequences, FiniteSets, TLC

VARIABLES pc, self, args, ret, calls

vars == <<pc, self, args, ret, calls>>

\* ---------------------------------------------------------------- bounds
MaxSeqLen == 9
MaxChunkLen == 4
MaxChunks == 3
MaxNeighbors == 2
MaxNeighborLen == 2
MaxAttnLen == 3
MaxLayers == 2
MaxRopeLen == 2
MaxCalls == 4
MaxAccumulate == 2
MaxGanLayers == 3
MaxFeatures == 5

\* --------------------------------------------------------------- helpers
None == 0 - 1

Min(a, b) == IF a < b THEN a ELSE b

Zero == [tok |-> None, norm |-> FALSE, kv |-> {}, res |-> None]

Emb(p) == [tok |-> p, norm |-> FALSE, kv |-> {}, res |-> None]

\* The embeddings of a sequence of seq_len tokens, before any layer
Embeddings(seq_len) == [k \in 1..seq_len |-> Emb(k - 1)]

\* h.new_zeros(batch_size, n, d_model)
Zeros(n) == [k \in 1..n |-> Zero]

\* Python's s[a:] and s[:b] on the sequence dimension (a, b >= 0)
SliceFrom(s, a) == SubSeq(s, a + 1, Len(s))

SliceTo(s, b) == SubSeq(s, 1, Min(b, Len(s)))

\* nn.LayerNorm applied position-wise
LayerNorm(s) == [k \in 1..Len(s) |-> [s[k] EXCEPT !.norm = TRUE]]

ShapeError == [status |-> "shape_error"]

\* -------------------------------------------- ChunkedCrossAttention.forward
\* The key/value entries of e: (chunk, neighbor, position in the neighbor)
Keys(e) == (0..(e.chunks - 1)) \X (0..(e.neighbors - 1)) \X (0..(e.neighbor_len - 1))

\* h = h[:, self.chunk_len - 1:]
CCAShift(h, chunk_len) == SliceFrom(h, chunk_len - 1)

\* Append empty embeddings to be able to split the input into chunks
\* (faulty variant: the zero embeddings are not appended)
CCAPadNone(h, chunks, chunk_len) == h

CCAPad(h, chunks, chunk_len) ==
    IF Len(h) < chunks * chunk_len
    THEN h \o Zeros(chunks * chunk_len - Len(h))
    ELSE h

\* einsum 'bcihd,bcnjhd->bchinj', softmax over (n, j), einsum 'bchinj,bcnjhd->bcihd'
\* on h reshaped to [chunks, chunk_len]: the query at flat position k (0-based)
\* is in chunk k div chunk_len and attends to every key of that chunk of e.
CCAAttend(h, e, chunk_len) ==
    [k \in 1..Len(h) |->
        [h[k] EXCEPT !.kv = {key \in Keys(e) : key[1] = (k - 1) \div chunk_len}]]

\* (faulty variant: the output is not shifted back to the right)
CCAShiftBackNone(h, chunk_len) == h

\* Append chunk_len - 1 zero embeddings to the left
CCAShiftBack(h, chunk_len) == Zeros(chunk_len - 1) \o h

\* Truncate and add the residual connection: h[:, :h_res.shape[1]] + h_res
AddResidual(h, h_res) ==
    LET t == SliceTo(h, Len(h_res))
    IN  IF Len(t) # Len(h_res)
        THEN ShapeError
        ELSE [status |-> "ok",
              h |-> [k \in 1..Len(t) |-> [t[k] EXCEPT !.res = h_res[k].tok]]]

\* (faulty variant: no early return)
CCANoEarlyReturn(e) == FALSE

\* if chunks == 0: return h
CCAEarlyReturn(e) == e.chunks = 0

CCAForward(h, e, chunk_len) ==
    IF CCAEarlyReturn(e)
    THEN [status |-> "ok", h |-> h, padded_len |-> None]
    ELSE LET h_res  == h
             normed == LayerNorm(CCAShift(h, chunk_len))
             padded == CCAPad(normed, e.chunks, chunk_len)
         IN  \* h.reshape(batch_size, chunks, self.chunk_len, d_model)
             IF Len(padded) # e.chunks * chunk_len
             THEN ShapeError
             ELSE LET attn == CCAAttend(padded, e, chunk_len)
                      r    == AddResidual(CCAShiftBack(attn, chunk_len), h_res)
                  IN  IF r.status = "ok"
                      THEN [status |-> "ok", h |-> r.h, padded_len |-> Len(padded)]
                      ELSE ShapeError

EShapes ==
    [chunks : 0..MaxChunks, neighbors : 1..MaxNeighbors, neighbor_len : 1..MaxNeighborLen]

InitCCA ==
    /\ pc = "cca"
    /\ self \in [chunk_len : 1..MaxChunkLen]
    /\ args \in [seq_len : 0..MaxSeqLen, e : EShapes]
    /\ ret = [status |-> "none"]
    /\ calls = <<>>

CCACall ==
    /\ pc = "cca"
    /\ ret' = CCAForward(Embeddings(args.seq_len), args.e, self.chunk_len)
    /\ pc' = "done"
    /\ UNCHANGED <<self, args, calls>>

SpecCCA == InitCCA /\ [][CCACall]_vars

\* The positions 0 .. n - 1 of a sequence of n embeddings
Positions(h) == 0..(Len(h) - 1)

\* The chunk whose neighbours output position i attends to
ChunkOf(i, chunk_len) == (i - (chunk_len - 1)) \div chunk_len

\* C1: ChunkedCrossAttention.forward leaks nothing from the future. With
\* chunks >= 1 every output position i either gets no attention contribution
\* (i < chunk_len - 1: a zero embedding plus the residual of position i) or
\* attends to exactly the neighbours e[:, c] of the one chunk
\* c = (i - (chunk_len - 1)) div chunk_len, whose last token position
\* (c + 1) * chunk_len - 1 is at most i; its query comes from no later position.
C1_NoFutureLeak ==
    (pc = "done" /\ args.e.chunks >= 1 /\ ret.status = "ok") =>
        \A i \in Positions(ret.h) :
            LET o  == ret.h[i + 1]
                cl == self.chunk_len
                c  == ChunkOf(i, cl)
            IN  /\ o.res = i
                /\ o.tok <= i
                /\ IF i < cl - 1
                   THEN o.kv = {} /\ o.tok = None
                   ELSE /\ o.kv = {key \in Keys(args.e) : key[1] = c}
                        /\ o.kv # {}
                        /\ (c + 1) * cl - 1 <= i

\* A call where positions of the second chunk's range attend to chunk 1 while
\* the first chunk_len - 1 positions attend to nothing
C1_Witness ==
    /\ pc = "done" /\ ret.status = "ok"
    /\ self.chunk_len = 3 /\ args.seq_len = 8 /\ args.e.chunks = 2
    /\ ret.h[2].kv = {}
    /\ \E key \in ret.h[6].kv : key[1] = 1

\* C2: with chunks = seq_len div chunk_len >= 1 the shifted and zero-padded
\* sequence has exactly chunks * chunk_len positions, so the reshape into
\* chunks succeeds, and the returned tensor has the input's seq_len positions.
C2_LengthsPreserved ==
    (pc = "done" /\ args.e.chunks = args.seq_len \div self.chunk_len
                 /\ args.e.chunks >= 1) =>
        /\ ret.status = "ok"
        /\ ret.padded_len = args.e.chunks * self.chunk_len
        /\ Len(ret.h) = args.seq_len

\* A call on a sequence that is not a multiple of chunk_len, where zeros are appended
C2_Witness ==
    /\ pc = "done" /\ ret.status = "ok"
    /\ self.chunk_len = 4 /\ args.seq_len = 9 /\ args.e.chunks = 2
    /\ ret.padded_len = 8 /\ Len(ret.h) = 9

\* C3: with chunks == 0 the forward pass returns the input embeddings h as
\* they are: no normalisation, attention, zero embedding or residual in them.
C3_NoChunksReturnsInput ==
    (pc = "done" /\ args.e.chunks = 0) =>
        /\ ret.status = "ok"
        /\ ret.h = Embeddings(args.seq_len)

\* A call with no chunks on a non-empty input
C3_Witness ==
    /\ pc = "done" /\ args.e.chunks = 0 /\ args.seq_len = 3
    /\ ret.status = "ok" /\ Len(ret.h) = 3

\* ------------------------------------------- SelfAttention.mask_attention
\* An attention score: a finite value, or -inf
Score(v) == [inf |-> FALSE, val |-> v]

NegInf == [inf |-> TRUE, val |-> 0]

\* The [seq_len, seq_len] index pairs (query position i, key position j)
Square(seq_len) == (0..(seq_len - 1)) \X (0..(seq_len - 1))

\* attn.new_ones(attn.shape[-2:])
Ones(attn) == [ij \in DOMAIN attn |-> 1]

\* (faulty variant: tril with diagonal=-1, which drops the main diagonal)
TrilStrict(m) == [ij \in DOMAIN m |-> IF ij[2] < ij[1] THEN m[ij] ELSE 0]

\* torch.tril: keeps the entries on and below the main diagonal
Tril(m) == [ij \in DOMAIN m |-> IF ij[2] <= ij[1] THEN m[ij] ELSE 0]

\* attn.masked_fill(cond, value)
MaskedFill(attn, cond, value) ==
    [ij \in DOMAIN attn |-> IF cond[ij] THEN value ELSE attn[ij]]

MaskAttention(attn, is_causal) ==
    IF ~is_causal
    THEN attn
    ELSE LET mask == Tril(Ones(attn))
         IN  MaskedFill(attn, [ij \in DOMAIN mask |-> mask[ij] = 0], NegInf)

ScoreValues == {Score(0), Score(1)}

InitMask ==
    /\ pc = "mask_attention"
    /\ self \in [is_causal : BOOLEAN]
    /\ \E seq_len \in 0..MaxAttnLen :
          args \in [seq_len : {seq_len}, attn : [Square(seq_len) -> ScoreValues]]
    /\ ret = [status |-> "none"]
    /\ calls = <<>>

MaskCall ==
    /\ pc = "mask_attention"
    /\ ret' = [status |-> "ok", attn |-> MaskAttention(args.attn, self.is_causal)]
    /\ pc' = "done"
    /\ UNCHANGED <<self, args, calls>>

SpecMask == InitMask /\ [][MaskCall]_vars

\* C4: for a causal layer mask_attention sets the score of query i on key j
\* to -inf exactly when j > i and leaves the scores with j <= i as they were
\* (so the diagonal survives in every row); for a non-causal layer it
\* returns the attention matrix unchanged.
C4_CausalMask ==
    pc = "done" =>
        IF self.is_causal
        THEN /\ DOMAIN ret.attn = Square(args.seq_len)
             /\ \A ij \in Square(args.seq_len) :
                    /\ ij[2] > ij[1] => ret.attn[ij] = NegInf
                    /\ ij[2] <= ij[1] => ret.attn[ij] = args.attn[ij] /\ ~ret.attn[ij].inf
        ELSE ret.attn = args.attn

\* A causal call on three positions: the future of position 0 is masked and
\* the diagonal and the past of position 2 are kept
C4_Witness ==
    /\ pc = "done" /\ self.is_causal /\ args.seq_len = 3
    /\ ret.attn[<<0, 1>>] = NegInf /\ ret.attn[<<0, 2>>] = NegInf
    /\ ret.attn[<<2, 2>>] = Score(1) /\ ret.attn[<<2, 0>>] = Score(0)

\* ------------------------------------------------ RetroModel.forward: shapes
\* The sizes of _test
batch_size == 10
d_model == 8
n_heads == 2
d_k == 4
n_vocab == 5

\* A tensor as its shape, or the shape error that raised
Tensor(shape) == [ok |-> TRUE, shape |-> shape]

Bad == [ok |-> FALSE, shape |-> <<>>]

Max(a, b) == IF a > b THEN a ELSE b

Last(s) == s[Len(s)]

Front(s) == SubSeq(s, 1, Len(s) - 1)

RECURSIVE Prod(_)
Prod(s) == IF Len(s) = 0 THEN 1 ELSE s[1] * Prod(Tail(s))

RECURSIVE SetMin(_)
SetMin(S) ==
    LET x == CHOOSE y \in S : TRUE
    IN  IF S = {x} THEN x ELSE Min(x, SetMin(S \ {x}))

\* The size inference of view and reshape: at most one dimension is -1. A
\* tensor of 0 elements cannot be reshaped to a shape whose known sizes
\* multiply to 0 and that has a -1: the inferred size would be ambiguous.
InferSize(shape, numel) ==
    LET known   == SelectSeq(shape, LAMBDA x : x # 0 - 1)
        infer   == Len(known) < Len(shape)
        newsize == Prod(known)
    IN  IF numel = newsize \/ (infer /\ newsize > 0 /\ numel % newsize = 0)
        THEN IF ~infer
             THEN Tensor(shape)
             ELSE IF newsize = 0
                  THEN Bad
                  ELSE Tensor([k \in 1..Len(shape) |->
                                 IF shape[k] = 0 - 1 THEN numel \div newsize ELSE shape[k]])
        ELSE Bad

\* t.view(shape), t.reshape(shape)
Reshape(t, shape) == IF t.ok THEN InferSize(shape, Prod(t.shape)) ELSE Bad

\* nn.Linear(in, out)
Linear(t, in, out) ==
    IF t.ok /\ Len(t.shape) > 0 /\ Last(t.shape) = in
    THEN Tensor(Front(t.shape) \o <<out>>)
    ELSE Bad

\* nn.LayerNorm(d)
Norm(t, d) == IF t.ok /\ Len(t.shape) > 0 /\ Last(t.shape) = d THEN t ELSE Bad

\* a + b on tensors of the same shape
Add(a, b) == IF a.ok /\ b.ok /\ a.shape = b.shape THEN a ELSE Bad

\* RotaryPositionalEmbeddings.forward: unpacks a 4-dimensional shape
RotaryShape(x) == IF x.ok /\ Len(x.shape) = 4 THEN x ELSE Bad

\* SelfAttention.forward on h of shape [batch, seq_len, d_model]
SelfAttentionForward(h) ==
    LET n  == Norm(h, d_model)
        q  == RotaryShape(Reshape(Linear(n, d_model, n_heads * d_k),
                                  Front(n.shape) \o <<n_heads, d_k>>))
    IN  IF ~q.ok
        THEN Bad
        ELSE LET \* einsum 'bihd,bjhd->bhij', then einsum 'bhij,bjhd->bihd'
                 hv == Tensor(<<q.shape[1], q.shape[2], q.shape[3], q.shape[4]>>)
                 r  == Reshape(hv, Front(Front(hv.shape)) \o <<0 - 1>>)
             IN  Add(Linear(r, n_heads * d_k, d_model), h)

\* CrossAttention.forward on e [batch, chunks, neighbors, neighbor_len, d_model]
\* and h [batch, chunks, chunk_len, d_model]
CrossAttentionForward(e, h) ==
    LET n == Norm(e, d_model)
        q == Reshape(Linear(n, d_model, n_heads * d_k), Front(n.shape) \o <<n_heads, d_k>>)
        k == Reshape(Linear(h, d_model, n_heads * d_k), Front(h.shape) \o <<n_heads, d_k>>)
    IN  IF ~q.ok \/ ~k.ok \/ Len(q.shape) # 6 \/ Len(k.shape) # 5
        THEN Bad
        ELSE IF q.shape[1] # k.shape[1] \/ q.shape[2] # k.shape[2]
        THEN Bad
        ELSE LET \* einsum 'bcnihd,bcjhd->bcnhij', then einsum 'bcnhij,bcjhd->bcnihd'
                 ev == Tensor(q.shape)
                 r  == Reshape(ev, Front(Front(ev.shape)) \o <<0 - 1>>)
             IN  Add(Linear(r, n_heads * d_k, d_model), e)

\* FeedForward.forward
FeedForwardForward(x) == Add(Norm(x, d_model), x)

\* ChunkedCrossAttention.forward on h [batch, seq_len, d_model]
\* and e [batch, chunks, neighbors, neighbor_len, d_model]
CCAForwardShape(h, e, chunk_len) ==
    IF ~h.ok \/ ~e.ok
    THEN Bad
    ELSE IF e.shape[2] = 0
    THEN h
    ELSE LET chunks  == e.shape[2]
             shifted == Norm(Tensor(<<h.shape[1], Max(h.shape[2] - (chunk_len - 1), 0),
                                      h.shape[3]>>), d_model)
             padded  == IF shifted.shape[2] < chunks * chunk_len
                        THEN IF h.shape[1] = e.shape[1] /\ h.shape[3] = e.shape[5]
                             THEN Tensor(<<h.shape[1], chunks * chunk_len, h.shape[3]>>)
                             ELSE Bad
                        ELSE shifted
             split   == Reshape(padded, <<e.shape[1], chunks, chunk_len, e.shape[5]>>)
             q == Reshape(Linear(split, d_model, n_heads * d_k),
                          Front(split.shape) \o <<n_heads, d_k>>)
             k == Reshape(Linear(e, d_model, n_heads * d_k),
                          Front(e.shape) \o <<n_heads, d_k>>)
         IN  IF ~q.ok \/ ~k.ok
             THEN Bad
             ELSE LET \* einsum 'bcihd,bcnjhd->bchinj'
                      attn == Tensor(<<q.shape[1], q.shape[2], n_heads, q.shape[3],
                                       k.shape[3], k.shape[4]>>)
                      sm   == Reshape(Reshape(attn, Front(Front(attn.shape)) \o <<0 - 1>>),
                                      attn.shape)
                      \* einsum 'bchinj,bcnjhd->bcihd'
                      hv   == Tensor(q.shape)
                      o    == Linear(Reshape(hv, <<e.shape[1], chunks * chunk_len, 0 - 1>>),
                                     n_heads * d_k, d_model)
                  IN  IF ~sm.ok \/ ~o.ok
                      THEN Bad
                      ELSE Add(Tensor(<<o.shape[1],
                                        Min(chunk_len - 1 + o.shape[2], h.shape[2]),
                                        o.shape[3]>>), h)

\* for p in range(len(self.attn)) of Encoder.forward, from layer p on
RECURSIVE EncoderLayers(_, _, _, _, _)
EncoderLayers(p, e, h_split, neighbor_len, encoder) ==
    IF p >= encoder.n_layers \/ ~e.ok
    THEN e
    ELSE LET a == Reshape(SelfAttentionForward(Reshape(e, <<0 - 1, neighbor_len, d_model>>)),
                          e.shape)
             c == IF p \in encoder.ca_layers THEN CrossAttentionForward(a, h_split) ELSE a
         IN  EncoderLayers(p + 1, FeedForwardForward(c), h_split, neighbor_len, encoder)

\* Encoder.forward on e [batch, chunks, neighbors, neighbor_len, d_model]
\* and h [batch, seq_len, d_model]
EncoderForward(e, h, encoder) ==
    IF ~e.ok \/ ~h.ok
    THEN Bad
    ELSE LET chunks  == e.shape[2]
             sliced  == Tensor(<<h.shape[1], Min(encoder.chunk_len * chunks, h.shape[2]),
                                 h.shape[3]>>)
             h_split == Norm(Reshape(sliced, <<e.shape[1], chunks, encoder.chunk_len,
                                               e.shape[5]>>), d_model)
         IN  IF ~h_split.ok
             THEN Bad
             ELSE EncoderLayers(0, e, h_split, e.shape[4], encoder)

\* for p in range(len(self.attn)) of RetroModel.forward, from layer p on;
\* e is the encoded neighbours once layer min(ca_layers) has run
RECURSIVE DecoderLayers(_, _, _, _, _)
DecoderLayers(p, h, e, ret_emb, model) ==
    IF p >= model.n_layers \/ ~h.ok
    THEN h
    ELSE LET a  == SelfAttentionForward(h)
             e1 == IF model.ca_layers # {} /\ p = SetMin(model.ca_layers)
                   THEN Norm(EncoderForward(ret_emb, a, model.encoder), d_model)
                   ELSE e
             c  == IF p \in model.ca_layers
                   THEN CCAForwardShape(a, e1, model.chunk_len)
                   ELSE a
         IN  DecoderLayers(p + 1, FeedForwardForward(c), e1, ret_emb, model)

\* RetroModel.forward on x [batch, seq_len] and ret [batch, chunks, neighbors, neighbor_len]
RetroForward(x, ret_ids, model) ==
    LET h       == Tensor(x \o <<d_model>>)
        ret_emb == Tensor(ret_ids \o <<d_model>>)
    IN  Linear(DecoderLayers(0, h, Bad, ret_emb, model), d_model, n_vocab)

InitRetro ==
    /\ pc = "retro"
    /\ \E chunk_len \in 1..MaxChunkLen :
          self \in [n_layers : 0..MaxLayers, ca_layers : SUBSET (0..MaxLayers),
                    chunk_len : {chunk_len},
                    encoder : [n_layers : 0..MaxLayers, ca_layers : SUBSET (0..MaxLayers),
                               chunk_len : {chunk_len}]]
    /\ args \in [seq_len : 1..MaxSeqLen, neighbors : 1..MaxNeighbors,
                 neighbor_len : 1..MaxNeighborLen]
    /\ ret = [status |-> "none"]
    /\ calls = <<>>

\* m(x, ret) with chunks = seq_len div chunk_len retrieved chunks
RetroCall ==
    /\ pc = "retro"
    /\ LET chunks == args.seq_len \div self.chunk_len
           out    == RetroForward(<<batch_size, args.seq_len>>,
                                  <<batch_size, chunks, args.neighbors, args.neighbor_len>>,
                                  self)
       IN  ret' = [status |-> IF out.ok THEN "ok" ELSE "shape_error", shape |-> out.shape]
    /\ pc' = "done"
    /\ UNCHANGED <<self, args, calls>>

SpecRetro == InitRetro /\ [][RetroCall]_vars

\* C5: RetroModel.forward on x [batch_size, seq_len] and ret [batch_size,
\* seq_len div chunk_len, neighbors, neighbor_len] raises no shape error and
\* returns logits of shape [batch_size, seq_len, n_vocab], for every n_layers,
\* ca_layers and seq_len.
C5_ForwardShape ==
    pc = "done" =>
        /\ ret.status = "ok"
        /\ ret.shape = <<batch_size, args.seq_len, n_vocab>>

\* C5 for the inputs that retrieve at least one chunk (seq_len >= chunk_len)
C5_ForwardShapeWithChunks ==
    (pc = "done" /\ args.seq_len >= self.chunk_len) =>
        /\ ret.status = "ok"
        /\ ret.shape = <<batch_size, args.seq_len, n_vocab>>

\* --------------------------------------- Encoder.forward: what attends to what
\* An entry of e carries kv, the positions of h its query attended to in a
\* cross-attention layer, and src, the positions of h it holds information of.
\* (faulty variant of h_split: the positions are dealt out to the chunks in turn)
HSplitStrided(h, chunks, chunk_len) ==
    LET sliced == SliceTo(h, chunk_len * chunks)
    IN  IF Len(sliced) # chunks * chunk_len
        THEN ShapeError
        ELSE [status |-> "ok",
              h |-> [cj \in (0..(chunks - 1)) \X (0..(chunk_len - 1)) |->
                        sliced[cj[2] * chunks + cj[1] + 1]]]

\* h[:, :self.chunk_len * chunks, :].reshape(batch_size, chunks, self.chunk_len, d_model)
HSplit(h, chunks, chunk_len) ==
    LET sliced == SliceTo(h, chunk_len * chunks)
    IN  IF Len(sliced) # chunks * chunk_len
        THEN ShapeError
        ELSE [status |-> "ok",
              h |-> [cj \in (0..(chunks - 1)) \X (0..(chunk_len - 1)) |->
                        sliced[cj[1] * chunk_len + cj[2] + 1]]]

\* self.attn[p](e.view(-1, neighbor_len, d_model)).view(e.shape): non-causal
\* self-attention inside each row of the flattened [chunks * neighbors, neighbor_len]
EncSelfAttention(e, shape) ==
    LET rows == 0..(shape.chunks * shape.neighbors - 1)
        flat == [ri \in rows \X (0..(shape.neighbor_len - 1)) |->
                    e[<<ri[1] \div shape.neighbors, ri[1] % shape.neighbors, ri[2]>>]]
        attn == [ri \in DOMAIN flat |->
                    [flat[ri] EXCEPT !.src =
                        UNION {flat[<<ri[1], j>>].src : j \in 0..(shape.neighbor_len - 1)}]]
    IN  [key \in Keys(shape) |-> attn[<<key[1] * shape.neighbors + key[2], key[3]>>]]

\* CrossAttention.forward: einsum 'bcnihd,bcjhd->bcnhij', softmax over j,
\* einsum 'bcnhij,bcjhd->bcnihd'
EncCrossAttention(e, h_split, chunk_len) ==
    [key \in DOMAIN e |->
        LET attended == {h_split[<<key[1], j>>].tok : j \in 0..(chunk_len - 1)}
        IN  [src |-> e[key].src \cup attended, kv |-> e[key].kv \cup attended]]

RECURSIVE EncoderAttends(_, _, _, _, _)
EncoderAttends(p, e, h_split, shape, encoder) ==
    IF p >= encoder.n_layers
    THEN e
    ELSE LET a == EncSelfAttention(e, shape)
             c == IF p \in encoder.ca_layers
                  THEN EncCrossAttention(a, h_split, encoder.chunk_len)
                  ELSE a
         IN  EncoderAttends(p + 1, c, h_split, shape, encoder)

EncoderForwardAttends(shape, h, encoder) ==
    LET split == HSplit(h, shape.chunks, encoder.chunk_len)
        e     == [key \in Keys(shape) |-> [src |-> {}, kv |-> {}]]
    IN  IF split.status # "ok"
        THEN ShapeError
        ELSE [status |-> "ok", e |-> EncoderAttends(0, e, split.h, shape, encoder)]

InitEncoder ==
    /\ pc = "encoder"
    /\ self \in [n_layers : 0..MaxLayers, ca_layers : SUBSET (0..MaxLayers),
                 chunk_len : 1..MaxChunkLen]
    /\ args \in [seq_len : 0..MaxSeqLen, e : EShapes]
    /\ ret = [status |-> "none"]
    /\ calls = <<>>

EncoderCall ==
    /\ pc = "encoder"
    /\ ret' = EncoderForwardAttends(args.e, Embeddings(args.seq_len), self)
    /\ pc' = "done"
    /\ UNCHANGED <<self, args, calls>>

SpecEncoder == InitEncoder /\ [][EncoderCall]_vars

\* The input positions of chunk c
ChunkPositions(c, chunk_len) == (c * chunk_len)..((c + 1) * chunk_len - 1)

\* C6: in the encoder's cross-attention the queries of e[:, c, n] attend to
\* exactly the input positions c * chunk_len .. (c + 1) * chunk_len - 1 of h
\* (when a cross-attention layer runs at all), never to a position of another
\* chunk nor to one at or beyond chunks * chunk_len, and no information of
\* another chunk reaches them.
C6_NeighborAttendsOwnChunk ==
    (pc = "done" /\ ret.status = "ok") =>
        \A key \in Keys(args.e) :
            LET own == ChunkPositions(key[1], self.chunk_len)
                ran == \E p \in self.ca_layers : p < self.n_layers
            IN  /\ ret.e[key].kv = IF ran THEN own ELSE {}
                /\ ret.e[key].src \subseteq own
                /\ \A pos \in ret.e[key].kv : pos < args.e.chunks * self.chunk_len

\* An encoder with a cross-attention layer on two chunks of three tokens, and
\* a tail of h that belongs to no chunk
C6_Witness ==
    /\ pc = "done" /\ ret.status = "ok"
    /\ self.chunk_len = 3 /\ args.e.chunks = 2 /\ args.seq_len = 8
    /\ args.e.neighbors = 2 /\ args.e.neighbor_len = 2
    /\ ret.e[<<0, 1, 0>>].kv = {0, 1, 2}
    /\ ret.e[<<1, 0, 1>>].kv = {3, 4, 5}

\* ------------------------------------------ RotaryPositionalEmbeddings.forward
\* Cosines and sines of the angles m * theta_k are kept exact: theta_k stands
\* for an angle with a rational cosine and sine (a / c, b / c), a different
\* one for each k, so that cos(m theta_k) and sin(m theta_k) are the real and
\* imaginary part of (a + b i)^m over c^m. A rotated feature is its numerator
\* val over the denominator scale.
Rational == << <<3, 4, 5>>, <<5, 12, 13>>, <<8, 15, 17>>, <<7, 24, 25>> >>

\* (a + b i)^m for the angle theta_k, as <<real part, imaginary part, c^m>>
RECURSIVE CPow(_, _)
CPow(m, k) ==
    IF m = 0
    THEN <<1, 0, 1>>
    ELSE LET q == CPow(m - 1, k)
             t == Rational[k + 1]
         IN  <<q[1] * t[1] - q[2] * t[2], q[1] * t[2] + q[2] * t[1], q[3] * t[3]>>

\* An angle is <<m, k>>, the product of position m and theta_k
Cos(angle) == CPow(angle[1], angle[2])[1]

Sin(angle) == CPow(angle[1], angle[2])[2]

Scale(angle) == CPow(angle[1], angle[2])[3]

\* self.theta: one theta_k for each k of torch.arange(0, d, 2)
Theta(d) == [k \in 0..((d + 1) \div 2 - 1) |-> k]

\* torch.einsum('n,d->nd', seq_idx, self.theta)
IdxTheta(seq_len, theta) ==
    [mk \in (0..(seq_len - 1)) \X DOMAIN theta |-> <<mk[1], theta[mk[2]]>>]

\* torch.cat([idx_theta, idx_theta], dim=1), for n columns of idx_theta
IdxTheta2(idx_theta, seq_len, n) ==
    [mf \in (0..(seq_len - 1)) \X (0..(2 * n - 1)) |->
        IF mf[2] < n THEN idx_theta[mf] ELSE idx_theta[<<mf[1], mf[2] - n>>]]

\* (faulty variant: the second half is not negated)
NegHalfXNoNeg(x, seq_len, d) ==
    LET d_2 == d \div 2
    IN  [mf \in (0..(seq_len - 1)) \X (0..(d - 1)) |->
            IF mf[2] < d - d_2
            THEN x[<<mf[1], d_2 + mf[2]>>]
            ELSE x[<<mf[1], mf[2] - (d - d_2)>>]]

\* torch.cat([-x[:, :, :, d_2:], x[:, :, :, :d_2]], dim=-1)
NegHalfX(x, seq_len, d) ==
    LET d_2 == d \div 2
    IN  [mf \in (0..(seq_len - 1)) \X (0..(d - 1)) |->
            IF mf[2] < d - d_2
            THEN 0 - x[<<mf[1], d_2 + mf[2]>>]
            ELSE x[<<mf[1], mf[2] - (d - d_2)>>]]

\* rx = (x * idx_theta2.cos()) + (neg_half_x * idx_theta2.sin()), for the even
\* numbers of features d up to the d_k the self-attention layers are built with
RotaryForward(x, seq_len, d) ==
    LET theta      == Theta(d)
        idx_theta2 == IdxTheta2(IdxTheta(seq_len, theta), seq_len, (d + 1) \div 2)
        neg_half_x == NegHalfX(x, seq_len, d)
    IN  [mf \in DOMAIN x |->
            [val   |-> x[mf] * Cos(idx_theta2[mf]) + neg_half_x[mf] * Sin(idx_theta2[mf]),
             scale |-> Scale(idx_theta2[mf])]]

XValues == {1, 2}

InitRotary ==
    /\ pc = "rotary_pe"
    /\ \E half \in 1..(d_k \div 2) : self = [d |-> 2 * half]
    /\ \E seq_len \in 1..MaxRopeLen :
          args \in [seq_len : {seq_len},
                    x : [(0..(seq_len - 1)) \X (0..(self.d - 1)) -> XValues]]
    /\ ret = [status |-> "none"]
    /\ calls = <<>>

RotaryCall ==
    /\ pc = "rotary_pe"
    /\ ret' = [status |-> "ok", rx |-> RotaryForward(args.x, args.seq_len, self.d)]
    /\ pc' = "done"
    /\ UNCHANGED <<self, args, calls>>

SpecRotary == InitRotary /\ [][RotaryCall]_vars

\* C7: for even d, every position m and every i in 1 .. d/2 (feature i is
\* index i - 1, theta_i is self.theta[i - 1]) the forward pass pairs feature
\* i with feature i + d/2 and rotates the pair by m * theta_i:
\*   output i       = x_i cos(m theta_i) - x_{i + d/2} sin(m theta_i)
\*   output i + d/2 = x_{i + d/2} cos(m theta_i) + x_i sin(m theta_i),
\* and the embedding at position 0 is returned unchanged.
C7_RotatesPairs ==
    pc = "done" =>
        LET d_2 == self.d \div 2
        IN  /\ DOMAIN ret.rx = DOMAIN args.x
            /\ \A m \in 0..(args.seq_len - 1) : \A i \in 1..d_2 :
                LET angle == <<m, i - 1>>
                    lo    == <<m, i - 1>>
                    hi    == <<m, i - 1 + d_2>>
                IN  /\ ret.rx[lo] = [val   |-> args.x[lo] * Cos(angle) - args.x[hi] * Sin(angle),
                                     scale |-> Scale(angle)]
                    /\ ret.rx[hi] = [val   |-> args.x[hi] * Cos(angle) + args.x[lo] * Sin(angle),
                                     scale |-> Scale(angle)]
                    /\ m = 0 => /\ ret.rx[lo] = [val |-> args.x[lo], scale |-> 1]
                                /\ ret.rx[hi] = [val |-> args.x[hi], scale |-> 1]

\* A call with d = 4 on two positions: position 1, feature 2 (theta_2, cosine
\* 5/13 and sine 12/13) is 1 * 5 - 2 * 12 over 13, and feature 4 is 2 * 5 + 1 * 12 over 13
C7_Witness ==
    /\ pc = "done" /\ self.d = 4 /\ args.seq_len = 2
    /\ args.x[<<1, 1>>] = 1 /\ args.x[<<1, 3>>] = 2
    /\ ret.rx[<<1, 1>>] = [val |-> 0 - 19, scale |-> 13]
    /\ ret.rx[<<1, 3>>] = [val |-> 22, scale |-> 13]
    /\ ret.rx[<<0, 1>>].val = args.x[<<0, 1>>]

\* ------------------------------------------------- PathLengthPenalty.forward
\* The module's state is steps and moving_average. moving_average is kept as
\* the sequence of means folded into it (each mul_(beta).add_(mean, alpha=1-beta)
\* appends one); a mean is a path length or NaN.
NaN == [nan |-> TRUE, val |-> 0]

Mean(v) == [nan |-> FALSE, val |-> v]

PathMeans == {NaN, Mean(1), Mean(2)}

\* self.steps.add(1.): Tensor.add is out of place and its result is dropped,
\* so the parameter keeps its value
StepsAdd(steps) == steps

\* self.moving_average.mul_(self.beta).add_(mean, alpha=1 - self.beta)
MovingAverageUpdate(moving_average, mean) == Append(moving_average, mean)

\* The loss: the constant 0, or the mean squared deviation of path_lengths from
\* a = moving_average / (1 - beta ** steps)
PathLengthLoss(plp) ==
    IF plp.steps > 0
    THEN [kind |-> "mean_squared_deviation",
          a |-> [moving_average |-> plp.moving_average, steps |-> plp.steps]]
    ELSE [kind |-> "zero", a |-> [moving_average |-> <<>>, steps |-> 0]]

PathLengthPenaltyForward(plp, mean) ==
    [loss |-> PathLengthLoss(plp),
     self |-> IF mean # NaN
              THEN [steps |-> StepsAdd(plp.steps),
                    moving_average |-> MovingAverageUpdate(plp.moving_average, mean)]
              ELSE plp]

InitPLP ==
    /\ pc = "path_length_penalty"
    /\ self = [steps |-> 0, moving_average |-> <<>>]
    /\ args = [mean |-> NaN]
    /\ ret = [status |-> "none"]
    /\ calls = <<>>

\* One forward call on path lengths of some mean; calls records the means seen
PLPCall ==
    /\ pc = "path_length_penalty"
    /\ Len(calls) < MaxCalls
    /\ \E mean \in PathMeans :
          LET r == PathLengthPenaltyForward(self, mean)
          IN  /\ args' = [mean |-> mean]
              /\ self' = r.self
              /\ ret' = [status |-> "ok", loss |-> r.loss]
              /\ calls' = Append(calls, mean)
    /\ UNCHANGED pc

SpecPLP == InitPLP /\ [][PLPCall]_vars

\* The number of calls among the first n whose mean was not NaN
NonNaNCalls(n) == Cardinality({k \in 1..n : calls[k] # NaN})

\* C8: steps counts the forward calls whose mean path length is not NaN, and
\* the returned loss is the constant 0 exactly when no such call came before
\* this one, and the mean squared deviation from the bias-corrected moving
\* average on every later call.
C8_StepsCountNonNaNCalls ==
    (pc = "path_length_penalty" /\ Len(calls) > 0) =>
        /\ self.steps = NonNaNCalls(Len(calls))
        /\ ret.loss.kind = IF NonNaNCalls(Len(calls) - 1) = 0
                           THEN "zero"
                           ELSE "mean_squared_deviation"

\* What the code does instead: steps stays 0 and every loss is the constant 0
PLP_StepsNeverAdvance ==
    pc = "path_length_penalty" =>
        /\ self.steps = 0
        /\ Len(calls) > 0 => ret.loss.kind = "zero"
        /\ Len(self.moving_average) = NonNaNCalls(Len(calls))

\* ------------------------------------------------- Configs.step, Configs.run
\* A step is the sequence of the calls it makes on the optimizers, the losses,
\* the loader and the tracker; calls holds the calls of the latest step (and
\* of the run loop after it).
TotalSteps == 150000
GradientPenaltyInterval == 4
PathPenaltyAfter == 5000
PathPenaltyInterval == 32
LogGeneratedInterval == 500
CheckpointInterval == 2000
NewLineInterval == 200

\* (faulty variant: the test of the logging lines, (idx + 1) % 4 == 0)
GradientPenaltyDueShifted(idx) == (idx + 1) % GradientPenaltyInterval = 0

\* if idx % 4 == 0
GradientPenaltyDue(idx) == idx % GradientPenaltyInterval = 0

\* if idx > 5000 and idx % 32 == 0
PathPenaltyDue(idx) == idx > PathPenaltyAfter /\ idx % PathPenaltyInterval = 0

\* One iteration of the discriminator's accumulation loop
DiscriminatorIteration(idx) ==
    <<"generate_images", "next(loader)">>
    \o (IF GradientPenaltyDue(idx) THEN <<"gradient_penalty">> ELSE <<>>)
    \o <<"disc_loss.backward">>

\* (faulty variant: the generator iteration draws a real batch too)
GeneratorIterationDrawing(idx, ppl_nan) ==
    <<"generate_images", "next(loader)">>
    \o (IF PathPenaltyDue(idx)
        THEN <<"path_length_penalty">> \o (IF ppl_nan THEN <<>> ELSE <<"gen_loss + ppl">>)
        ELSE <<>>)
    \o <<"gen_loss.backward">>

\* One iteration of the generator's accumulation loop
GeneratorIteration(idx, ppl_nan) ==
    <<"generate_images">>
    \o (IF PathPenaltyDue(idx)
        THEN <<"path_length_penalty">> \o (IF ppl_nan THEN <<>> ELSE <<"gen_loss + ppl">>)
        ELSE <<>>)
    \o <<"gen_loss.backward">>

\* for i in range(n): n repetitions of an iteration
RECURSIVE Repeat(_, _)
Repeat(n, iteration) == IF n <= 0 THEN <<>> ELSE iteration \o Repeat(n - 1, iteration)

\* Configs.step(idx)
StepCalls(idx, gradient_accumulate_steps, ppl_nan) ==
    <<"discriminator_optimizer.zero_grad">>
    \o Repeat(gradient_accumulate_steps, DiscriminatorIteration(idx))
    \o <<"discriminator_optimizer.step">>
    \o <<"generator_optimizer.zero_grad", "mapping_network_optimizer.zero_grad">>
    \o Repeat(gradient_accumulate_steps, GeneratorIteration(idx, ppl_nan))
    \o <<"generator_optimizer.step", "mapping_network_optimizer.step">>
    \o (IF (idx + 1) % LogGeneratedInterval = 0 THEN <<"tracker.add(generated)">> ELSE <<>>)
    \o (IF (idx + 1) % CheckpointInterval = 0 THEN <<"save_checkpoint">> ELSE <<>>)
    \o <<"tracker.save">>

\* The number of entries of the sequence s that are x
Count(s, x) == Cardinality({k \in 1..Len(s) : s[k] = x})

\* self.loader after the calls: one batch drawn by each next(loader)
LoaderAfter(loader, step_calls) == loader + Count(step_calls, "next(loader)")

\* self.i is the next index of monit.loop(150_000), self.loader the number of
\* batches drawn so far; ret.first_ppl records the first idx whose step
\* computed the path-length penalty.
InitRun ==
    /\ pc = "run"
    /\ self \in [gradient_accumulate_steps : 1..MaxAccumulate, loader : {0}, i : {0}]
    /\ args = [idx |-> None]
    /\ ret = [status |-> "none", first_ppl |-> None]
    /\ calls = <<>>

\* One iteration of Configs.run: self.step(i), then the new line
RunStep ==
    /\ pc = "run"
    /\ self.i < TotalSteps
    /\ \E ppl_nan \in BOOLEAN :
          LET idx        == self.i
              step_calls == StepCalls(idx, self.gradient_accumulate_steps, ppl_nan)
          IN  /\ args' = [idx |-> idx]
              /\ calls' = step_calls \o (IF (idx + 1) % NewLineInterval = 0
                                         THEN <<"tracker.new_line">> ELSE <<>>)
              /\ self' = [self EXCEPT !.i = idx + 1,
                                      !.loader = LoaderAfter(self.loader, step_calls)]
              /\ ret' = [status |-> "ok",
                         first_ppl |-> IF ret.first_ppl = None
                                          /\ Count(step_calls, "path_length_penalty") > 0
                                       THEN idx ELSE ret.first_ppl]
    /\ UNCHANGED pc

SpecRun == InitRun /\ [][RunStep]_vars

\* The calls of the latest step on the optimizers and the backward passes, in order
PhaseCalls ==
    SelectSeq(calls, LAMBDA c : c \in {
        "discriminator_optimizer.zero_grad", "disc_loss.backward",
        "discriminator_optimizer.step", "generator_optimizer.zero_grad",
        "mapping_network_optimizer.zero_grad", "gen_loss.backward",
        "generator_optimizer.step", "mapping_network_optimizer.step"})

\* The position in calls of the only call c
IndexOf(c) == CHOOSE k \in 1..Len(calls) : calls[k] = c

\* C9: every step zeroes the discriminator gradients, makes exactly
\* gradient_accumulate_steps discriminator backward passes and one
\* discriminator optimizer step, then zeroes the generator and mapping-network
\* gradients, makes exactly gradient_accumulate_steps generator backward
\* passes and then one generator and one mapping-network optimizer step, in
\* this order; each discriminator iteration draws exactly one batch, the
\* generator phase draws none, so k steps have drawn k * gradient_accumulate_steps.
C9_StepPhases ==
    (pc = "run" /\ self.i > 0) =>
        LET g == self.gradient_accumulate_steps
            p == PhaseCalls
        IN  /\ Len(p) = 2 * g + 6
            /\ p[1] = "discriminator_optimizer.zero_grad"
            /\ \A k \in 2..(g + 1) : p[k] = "disc_loss.backward"
            /\ p[g + 2] = "discriminator_optimizer.step"
            /\ p[g + 3] = "generator_optimizer.zero_grad"
            /\ p[g + 4] = "mapping_network_optimizer.zero_grad"
            /\ \A k \in (g + 5)..(2 * g + 4) : p[k] = "gen_loss.backward"
            /\ p[2 * g + 5] = "generator_optimizer.step"
            /\ p[2 * g + 6] = "mapping_network_optimizer.step"
            /\ Count(calls, "next(loader)") = g
            /\ \A k \in 1..Len(calls) :
                  calls[k] = "next(loader)" =>
                      /\ k < IndexOf("discriminator_optimizer.step")
                      /\ \E b \in (k + 1)..(k + 2) :
                            /\ calls[b] = "disc_loss.backward"
                            /\ \A j \in (k + 1)..(b - 1) : calls[j] # "next(loader)"
            /\ self.loader = self.i * g

\* A step with two accumulation iterations and the gradient penalty
C9_Witness ==
    /\ pc = "run" /\ self.i = 5 /\ self.gradient_accumulate_steps = 2
    /\ self.loader = 10
    /\ calls = <<"discriminator_optimizer.zero_grad",
                 "generate_images", "next(loader)", "gradient_penalty", "disc_loss.backward",
                 "generate_images", "next(loader)", "gradient_penalty", "disc_loss.backward",
                 "discriminator_optimizer.step",
                 "generator_optimizer.zero_grad", "mapping_network_optimizer.zero_grad",
                 "generate_images", "gen_loss.backward",
                 "generate_images", "gen_loss.backward",
                 "generator_optimizer.step", "mapping_network_optimizer.step",
                 "tracker.save">>

\* C10: over the 150000 steps of run (idx = 0 .. 149999 in order) the
\* gradient penalty is added exactly in the steps with idx % 4 == 0, the
\* path-length penalty is computed exactly in the steps with idx > 5000 and
\* idx % 32 == 0 (first at idx 5024, never in the first 5001 steps), the
\* generated images are logged exactly when (idx + 1) % 500 == 0, a
\* checkpoint is saved exactly when (idx + 1) % 2000 == 0, and tracker.save
\* is called once, as the last call of every step.
C10_Schedule ==
    (pc = "run" /\ self.i > 0) =>
        LET idx == args.idx
            g   == self.gradient_accumulate_steps
            end == IF calls[Len(calls)] = "tracker.new_line" THEN Len(calls) - 1 ELSE Len(calls)
        IN  /\ idx = self.i - 1 /\ idx \in 0..149999
            /\ Count(calls, "gradient_penalty") = IF idx % 4 = 0 THEN g ELSE 0
            /\ Count(calls, "path_length_penalty") = IF idx > 5000 /\ idx % 32 = 0 THEN g ELSE 0
            /\ idx <= 5000 => Count(calls, "path_length_penalty") = 0
            /\ ret.first_ppl = IF idx < 5024 THEN None ELSE 5024
            /\ Count(calls, "tracker.add(generated)") = IF (idx + 1) % 500 = 0 THEN 1 ELSE 0
            /\ Count(calls, "save_checkpoint") = IF (idx + 1) % 2000 = 0 THEN 1 ELSE 0
            /\ Count(calls, "tracker.save") = 1
            /\ calls[end] = "tracker.save"

\* The step of idx 5024: the first with the path-length penalty, and with the
\* gradient penalty too
C10_Witness ==
    /\ pc = "run" /\ args.idx = 5024 /\ ret.first_ppl = 5024
    /\ Count(calls, "path_length_penalty") > 0
    /\ Count(calls, "gradient_penalty") > 0
    /\ Count(calls, "tracker.save") = 1

\* The last step of the run: idx 149999, with the images logged and a checkpoint saved
C10_LastStep ==
    /\ pc = "run" /\ self.i = 150000 /\ args.idx = 149999
    /\ Count(calls, "tracker.add(generated)") = 1
    /\ Count(calls, "save_checkpoint") = 1

\* ------------------------------------- Generator.__init__, Discriminator.__init__
\* A block is the pair of channel counts it is built with.
Block(in_features, out_features) == [in_features |-> in_features, out_features |-> out_features]

\* for i in range(n_layers) of Generator.__init__, from iteration i on: the
\* blocks appended so far and the running in_features
RECURSIVE GeneratorLoop(_, _, _, _, _)
GeneratorLoop(i, n_layers, in_features, max_features, blocks) ==
    IF i >= n_layers
    THEN [blocks |-> blocks, in_features |-> in_features]
    ELSE LET out_features == in_features
             doubled      == Min(in_features * 2, max_features)
         IN  GeneratorLoop(i + 1, n_layers, doubled, max_features,
                           Append(blocks, Block(doubled, out_features)))

\* (faulty variant: the blocks are kept in the order they were built)
ReversedNot(s) == s

\* list(reversed(blocks))
Reversed(s) == [k \in 1..Len(s) |-> s[Len(s) + 1 - k]]

\* Generator(n_layers, d_latent, n_features, max_features)
GeneratorInit(n_layers, n_features, max_features) ==
    LET built == GeneratorLoop(0, n_layers, n_features, max_features, <<>>)
    IN  [blocks |-> Reversed(built.blocks), initial_constant |-> built.in_features]

\* for i in range(n_layers) of Discriminator.__init__, from iteration i on
RECURSIVE DiscriminatorLoop(_, _, _, _, _)
DiscriminatorLoop(i, n_layers, out_features, max_features, blocks) ==
    IF i >= n_layers
    THEN [blocks |-> blocks, out_features |-> out_features]
    ELSE LET in_features == out_features
             doubled     == Min(out_features * 2, max_features)
         IN  DiscriminatorLoop(i + 1, n_layers, doubled, max_features,
                               Append(blocks, Block(in_features, doubled)))

\* Discriminator(n_layers, n_image_features, n_features, max_features)
DiscriminatorInit(n_layers, n_features, max_features) ==
    LET built == DiscriminatorLoop(0, n_layers, n_features, max_features, <<>>)
    IN  [from_rgb_out |-> n_features,
         blocks |-> built.blocks,
         conv   |-> Block(built.out_features, built.out_features),
         logits |-> Block(built.out_features, 1)]

InitGAN ==
    /\ pc = "construct"
    /\ self = [blocks |-> <<>>]
    /\ args \in [n_layers : 1..MaxGanLayers, n_features : 1..MaxFeatures,
                 max_features : 1..MaxFeatures]
    /\ ret = [status |-> "none"]
    /\ calls = <<>>

NewGenerator ==
    /\ pc = "construct"
    /\ self' = GeneratorInit(args.n_layers, args.n_features, args.max_features)
    /\ pc' = "generator"
    /\ UNCHANGED <<args, ret, calls>>

NewDiscriminator ==
    /\ pc = "construct"
    /\ self' = DiscriminatorInit(args.n_layers, args.n_features, args.max_features)
    /\ pc' = "discriminator"
    /\ UNCHANGED <<args, ret, calls>>

SpecGAN == InitGAN /\ [][NewGenerator \/ NewDiscriminator]_vars

\* Each block's output channel count is the next block's input channel count
Chained(blocks) ==
    \A k \in 1..(Len(blocks) - 1) : blocks[k].out_features = blocks[k + 1].in_features

\* C11: for n_layers, n_features, max_features >= 1 the Generator's blocks form
\* a channel chain from initial_constant's channel count to n_features, and the
\* Discriminator's blocks, each with min(2 * in, max_features) output channels,
\* form a chain that the final convolution and the logits layer continue.
C11_ChannelChains ==
    /\ pc = "generator" =>
          /\ Len(self.blocks) = args.n_layers
          /\ self.blocks[1].in_features = self.initial_constant
          /\ Chained(self.blocks)
          /\ self.blocks[Len(self.blocks)].out_features = args.n_features
    /\ pc = "discriminator" =>
          /\ Len(self.blocks) = args.n_layers
          /\ \A k \in 1..Len(self.blocks) :
                self.blocks[k].out_features
                    = Min(2 * self.blocks[k].in_features, args.max_features)
          /\ Chained(self.blocks)
          /\ self.conv.in_features = self.blocks[Len(self.blocks)].out_features
          /\ self.logits.in_features = self.blocks[Len(self.blocks)].out_features

\* A generator of three blocks whose channel counts differ: 4 -> 4 -> 2 -> 1
C11_Witness ==
    /\ pc = "generator" /\ args.n_layers = 3 /\ args.n_features = 1 /\ args.max_features = 4
    /\ self.initial_constant = 4
    /\ self.blocks = <<Block(4, 4), Block(4, 2), Block(2, 1)>>

\* A discriminator whose doubling is capped by max_features: 2 -> 4 -> 5 -> 5
C11_DiscriminatorReached ==
    /\ pc = "discriminator" /\ args.n_layers = 3 /\ args.n_features = 2
    /\ self.blocks = <<Block(2, 4), Block(4, 5), Block(5, 5)>>
    /\ self.conv = Block(5, 5) /\ self.logits.in_features = 5

\* ------------------------------------------------------------ CarvanaDataset
\* A file name is the sequence of its characters; a directory is the set of
\* the names of its entries, and iterdir yields them in an arbitrary order.
\* A dict is the sequence of its (key, value) items in insertion order.
MaskSuffixLen == 5

ImageNames ==
    { <<"a", ".", "j">>, <<"a", ".", "p">>, <<"b", ".", "j">> }

MaskNames ==
    { <<"a", "_", "m", "a", "s", "k", ".", "g">>,
      <<"b", "_", "m", "a", "s", "k", ".", "g">>,
      <<"a", "b", "_", "m", "a", "s", "k", ".", "g">>,
      <<"a", "_", "m", "s", "k", ".", "g">> }

\* p.stem: the name without its last suffix (a dot that is neither the first
\* nor the last character starts the suffix)
Stem(name) ==
    LET dots == {k \in 1..Len(name) : name[k] = "."}
        last == CHOOSE k \in dots : \A j \in dots : j <= k
    IN  IF dots # {} /\ 1 < last /\ last < Len(name)
        THEN SubSeq(name, 1, last - 1)
        ELSE name

\* (faulty variant: a suffix of four characters is cut)
MaskKeyShort(stem) == SubSeq(stem, 1, Len(stem) - 4)

\* p.stem[:-5]
MaskKey(stem) == SubSeq(stem, 1, Len(stem) - MaskSuffixLen)

\* d[key] = value: a new key is appended, a known key keeps its place
DictSet(d, key, value) ==
    IF \E k \in 1..Len(d) : d[k].key = key
    THEN [k \in 1..Len(d) |-> IF d[k].key = key THEN [key |-> key, value |-> value] ELSE d[k]]
    ELSE Append(d, [key |-> key, value |-> value])

DictHas(d, key) == \E k \in 1..Len(d) : d[k].key = key

DictGet(d, key) == d[CHOOSE k \in 1..Len(d) : d[k].key = key].value

\* {p.stem: p for p in image_path.iterdir()}, for the entries in iterdir's order
RECURSIVE ImagesDict(_)
ImagesDict(entries) ==
    IF Len(entries) = 0
    THEN <<>>
    ELSE LET p == entries[Len(entries)]
         IN  DictSet(ImagesDict(SubSeq(entries, 1, Len(entries) - 1)), Stem(p), p)

\* {p.stem[:-5]: p for p in mask_path.iterdir()}
RECURSIVE MasksDict(_)
MasksDict(entries) ==
    IF Len(entries) = 0
    THEN <<>>
    ELSE LET p == entries[Len(entries)]
         IN  DictSet(MasksDict(SubSeq(entries, 1, Len(entries) - 1)), MaskKey(Stem(p)), p)

\* The orders in which iterdir may yield the entries of a directory
IterDir(dir) ==
    {order \in [1..Cardinality(dir) -> dir] : \A p \in dir : \E k \in DOMAIN order : order[k] = p}

\* CarvanaDataset.__init__
CarvanaInit(image_entries, mask_entries) ==
    LET images == ImagesDict(image_entries)
    IN  [images |-> images,
         masks  |-> MasksDict(mask_entries),
         ids    |-> [k \in 1..Len(images) |-> images[k].key]]

\* CarvanaDataset.__getitem__: the paths of the image and of the mask that are
\* opened, or the KeyError of self.masks[id_]
CarvanaGetItem(ds, idx) ==
    LET id_   == ds.ids[idx + 1]
        image == DictGet(ds.images, id_)
    IN  IF DictHas(ds.masks, id_)
        THEN [op |-> "getitem", status |-> "ok", image |-> image,
              mask |-> DictGet(ds.masks, id_)]
        ELSE [op |-> "getitem", status |-> "KeyError", image |-> image, mask |-> <<>>]

\* CarvanaDataset.__len__
CarvanaLen(ds) == Len(ds.ids)

InitCarvana ==
    /\ pc = "new"
    /\ self = [images |-> <<>>, masks |-> <<>>, ids |-> <<>>]
    /\ args \in [image_path : SUBSET ImageNames, mask_path : SUBSET MaskNames, idx : {None}]
    /\ ret = [op |-> "none", status |-> "none"]
    /\ calls = <<>>

NewCarvanaDataset ==
    /\ pc = "new"
    /\ \E image_entries \in IterDir(args.image_path) :
       \E mask_entries \in IterDir(args.mask_path) :
          self' = CarvanaInit(image_entries, mask_entries)
    /\ pc' = "ready"
    /\ UNCHANGED <<args, ret, calls>>

\* ds[idx] for an index 0 .. len(ds) - 1
GetItemCall ==
    /\ pc = "ready"
    /\ \E idx \in 0..(CarvanaLen(self) - 1) :
          /\ args' = [args EXCEPT !.idx = idx]
          /\ ret' = CarvanaGetItem(self, idx)
    /\ UNCHANGED <<pc, self, calls>>

SpecCarvana == InitCarvana /\ [][NewCarvanaDataset \/ GetItemCall]_vars

\* The stem is the image stem id_ followed by MaskSuffixLen more characters
IsMaskStemOf(stem, id_) ==
    /\ Len(stem) = Len(id_) + 5
    /\ SubSeq(stem, 1, Len(id_)) = id_

\* C12 as stated: len(ds) is the number of entries of the image directory,
\* and for every index __getitem__ succeeds and returns the image with the
\* mask whose stem is the image's stem followed by a 5-character suffix.
C12_EveryItemHasItsMask ==
    pc = "ready" =>
        /\ CarvanaLen(self) = Cardinality(args.image_path)
        /\ ret.op = "getitem" =>
              /\ ret.status = "ok"
              /\ ret.image \in args.image_path
              /\ ret.mask \in args.mask_path
              /\ IsMaskStemOf(Stem(ret.mask), Stem(ret.image))

\* C12 amended: len(ds) is the number of distinct stems of the entries of the
\* image directory (the number of entries when no two share a stem); for
\* every index, __getitem__ opens an image of the directory whose stem is
\* ids[idx], and, when the mask directory holds a file whose stem is that stem
\* followed by 5 characters, such a mask; otherwise it raises KeyError.
C12_ItemsByStem ==
    pc = "ready" =>
        /\ CarvanaLen(self) = Cardinality({Stem(p) : p \in args.image_path})
        /\ (\A p, q \in args.image_path : Stem(p) = Stem(q) => p = q)
              => CarvanaLen(self) = Cardinality(args.image_path)
        /\ ret.op = "getitem" =>
              LET id_ == self.ids[args.idx + 1]
              IN  /\ ret.image \in args.image_path
                  /\ Stem(ret.image) = id_
                  /\ IF \E m \in args.mask_path : IsMaskStemOf(Stem(m), id_)
                     THEN /\ ret.status = "ok"
                          /\ ret.mask \in args.mask_path
                          /\ IsMaskStemOf(Stem(ret.mask), id_)
                     ELSE ret.status = "KeyError"

\* ds[1] on a directory of two cars with their masks: the second car's image
\* comes with the second car's mask
C12_Witness ==
    /\ pc = "ready" /\ ret.op = "getitem" /\ ret.status = "ok" /\ args.idx = 1
    /\ args.image_path = { <<"a", ".", "j">>, <<"b", ".", "j">> }
    /\ CarvanaLen(self) = 2
    /\ Stem(ret.image) = self.ids[2]
    /\ ret.mask \in args.mask_path
    /\ Stem(ret.mask) = Stem(ret.image) \o <<"_", "m", "a", "s", "k">>

\* An image without a mask: the lookup raises KeyError
C12_KeyErrorReached ==
    /\ pc = "ready" /\ ret.op = "getitem" /\ ret.status = "KeyError"
    /\ Stem(ret.image) = <<"b">>

====
